---- MODULE Spec2Model ----
(***************************************************************************)
(* Model of src/app.py: the session-gated request handlers (login,         *)
(* dashboard, logout, api_generate_video), the content generator           *)
(* (generate_directions, generate_storyboards) and the video task client   *)
(* (call_hailuo_api).                                                      *)
(*                                                                         *)
(* Text is a sequence of atoms.  A form value typed by the user is a       *)
(* sequence of one-character atoms; a literal fragment of an f-string is   *)
(* one atom holding the whole fragment; concatenation is \o, so that       *)
(* "s contains t" is a real contiguous-subsequence test.                   *)
(***************************************************************************)
EXTENDS Integers, Sequences, FiniteSets, TLC

\* HAILUO_API_KEY  the module global read from the environment at import
\* session         flask's session: a mapping that holds "username" or nothing
\* request         the request handled (or the helper called) last, with its input
\* response        what that handler or helper returned
VARIABLES HAILUO_API_KEY, session, request, response

vars == <<HAILUO_API_KEY, session, request, response>>

\* ------------------------------------------------------------------ bounds
\* Durations of the direct calls range over -2 .. MaxDur.
MaxDur == 31
\* Video counts of the direct calls range over 0 .. MaxNum, plus 10.
MaxNum == 1

\* --------------------------------------------------------------- constants
\* Python's None (a value no input string equals).
None == "<None>"

USERS == [u \in {"demo", "admin"} |-> IF u = "demo" THEN "password123" ELSE "admin"]

\* Python truthiness of an optional string: None and "" are falsy.
Truthy(v) == v # None /\ v # ""

\* dict.get(key, default) on a mapping with string keys.
Get(d, k, default) == IF k \in DOMAIN d THEN d[k] ELSE default

\* ------------------------------------------------------------ text helpers
DigitChars == <<"0", "1", "2", "3", "4", "5", "6", "7", "8", "9">>

Digits == {DigitChars[i] : i \in 1..10}

DigitVal(c) == (CHOOSE i \in 1..10 : DigitChars[i] = c) - 1

Whitespace == {" "}

RECURSIVE LStrip(_)
LStrip(s) == IF s # <<>> /\ Head(s) \in Whitespace THEN LStrip(Tail(s)) ELSE s

RECURSIVE RStrip(_)
RStrip(s) ==
  IF s # <<>> /\ s[Len(s)] \in Whitespace THEN RStrip(SubSeq(s, 1, Len(s) - 1)) ELSE s

\* str.strip()
Strip(s) == LStrip(RStrip(s))

RECURSIVE DigitsValue(_, _)
DigitsValue(s, acc) ==
  IF s = <<>> THEN acc ELSE DigitsValue(Tail(s), 10 * acc + DigitVal(Head(s)))

\* int(s) for a str s: surrounding whitespace is dropped, one optional sign,
\* then one or more decimal digits; anything else raises ValueError.
ParseInt(s) ==
  LET t == Strip(s)
      signed == t # <<>> /\ Head(t) \in {"+", "-"}
      body == IF signed THEN Tail(t) ELSE t
  IN IF body # <<>> /\ \A i \in 1..Len(body) : body[i] \in Digits
       THEN [ok |-> TRUE,
             value |-> IF signed /\ Head(t) = "-" THEN 0 - DigitsValue(body, 0)
                       ELSE DigitsValue(body, 0)]
       ELSE [ok |-> FALSE, value |-> 0]

\* str(n) of a non-negative int, as used by f"{n}".
RECURSIVE Str(_)
Str(n) == IF n < 10 THEN <<DigitChars[n + 1]>> ELSE Str(n \div 10) \o <<DigitChars[(n % 10) + 1]>>

Max(a, b) == IF a >= b THEN a ELSE b

Min(a, b) == IF a <= b THEN a ELSE b

\* ------------------------------------------------------- content generator
Directions == {"safe", "innovative", "experimental"}

generate_directions(product) ==
  [k \in Directions |->
     IF k = "safe"
       THEN <<"Focus on the core benefits of ">> \o product
            \o <<" and highlight its reliability ",
                 "and ease of use.  Use straightforward visuals, clear messaging, and a ",
                 "friendly tone that reinforces trust.">>
     ELSE IF k = "innovative"
       THEN <<"Emphasise how ">> \o product
            \o <<" pushes boundaries by showcasing its unique ",
                 "features or cutting-edge technology.  Incorporate dynamic camera ",
                 "movements, modern graphic overlays, and a forward-thinking narrative.">>
     ELSE <<"Take a bold, artistic approach to expressing the essence of ">> \o product
            \o <<".  ",
                 "Use abstract storytelling, unexpected metaphors, or surreal visuals ",
                 "that evoke emotion and curiosity.">>]

\* The closure build_scenes(adjective) of generate_storyboards; product and
\* segment_length are the variables it captures.  The second fragment of
\* scene 3's description is a plain string literal, not an f-string, so its
\* braces are literal text.
build_scenes(adjective, product, segment_length) ==
  << [description |->
        <<"Scene 1 (">> \o Str(segment_length) \o <<"s): Introduce ">> \o product
        \o <<" in a ">> \o adjective \o <<" way, ">>
        \o <<"highlighting its main value proposition.">>,
      prompt |->
        <<"An opening shot that showcases ">> \o product \o <<" with ">> \o adjective
        \o <<" tone; ">>
        \o <<"smooth camera movement and soft lighting.">>],
     [description |->
        <<"Scene 2 (">> \o Str(segment_length) \o <<"s): Expand on how ">> \o product
        \o <<" benefits the target ">>
        \o <<"audience, incorporating a ">> \o adjective \o <<" visual metaphor.">>,
      prompt |->
        <<"A middle shot using a ">> \o adjective \o <<" metaphor to illustrate ">>
        \o product \o <<"'s ">>
        \o <<"advantage; dynamic transitions and engaging colours.">>],
     [description |->
        <<"Scene 3 (">> \o Str(segment_length)
        \o <<"s): Conclude by motivating viewers to act, ">>
        \o <<"leaving them with a memorable ", "{adjective}", " impression of ",
             "{product}", ".">>,
      prompt |->
        <<"A closing shot that leaves a strong ">> \o adjective \o <<" impression of ">>
        \o product \o <<"; ">>
        \o <<"dramatic composition and inspiring text overlay.">>] >>

\* The adjective phrase generate_storyboards passes for each direction.
Adjective(k) ==
  IF k = "safe" THEN <<"safe and trustworthy">>
  ELSE IF k = "innovative" THEN <<"innovative and modern">>
  ELSE <<"experimental and artistic">>

\* segment_length = max(1, duration // 3); \div is floor division, as // is.
SegmentLength(duration) == Max(1, duration \div 3)

\* Mutant: the pacing is divided among the requested videos.
generate_storyboards_PerVideo(product, num_videos, duration) ==
  [k \in Directions |->
     build_scenes(Adjective(k), product, SegmentLength(duration \div Max(1, num_videos)))]

generate_storyboards(product, num_videos, duration) ==
  [k \in Directions |-> build_scenes(Adjective(k), product, SegmentLength(duration))]

\* Mutant: the job is submitted before the key is looked at.
call_hailuo_api_SubmitFirst(prompt, duration, image, end_image, resolution) ==
  [value |-> [task_id |-> None, video_url |-> None,
              message |-> "Hailuo API key not configured; skipping real API call."],
   io |-> <<"submit">>]

\* Mutant: the test on the key is inverted.
call_hailuo_api_Inverted(prompt, duration, image, end_image, resolution) ==
  IF Truthy(HAILUO_API_KEY)
    THEN [value |-> [task_id |-> None, video_url |-> None,
                     message |-> "Hailuo API key not configured; skipping real API call."],
          io |-> <<>>]
    ELSE [value |-> [task_id |-> None, video_url |-> None,
                     message |-> "Networking disabled; returning placeholder response."],
          io |-> <<>>]

\* ------------------------------------------------------- video task client
\* The value call_hailuo_api returns and the network requests and sleeps it
\* performed on the way (io).  The submit-and-poll code of lines 215-264 is
\* the body of a string literal: it is never executed, so with a key
\* configured control falls through to the fallback return.
call_hailuo_api(prompt, duration, image, end_image, resolution) ==
  IF ~Truthy(HAILUO_API_KEY)
    THEN [value |-> [task_id |-> None, video_url |-> None,
                     message |-> "Hailuo API key not configured; skipping real API call."],
          io |-> <<>>]
    ELSE [value |-> [task_id |-> None, video_url |-> None,
                     message |-> "Networking disabled; returning placeholder response."],
          io |-> <<>>]

\* ------------------------------------------------------------ dict helpers
\* d[k] = v on a mapping with string keys.
SetItem(d, k, v) == [x \in DOMAIN d \cup {k} |-> IF x = k THEN v ELSE d[x]]

\* d.pop(k, None): the mapping without key k.
Pop(d, k) == [x \in DOMAIN d \ {k} |-> d[x]]

\* ---------------------------------------------------------------- responses
Redirect(endpoint) == [kind |-> "redirect", status |-> 302, to |-> endpoint]

Render(template, context) ==
  [kind |-> "render", status |-> 200, template |-> template, context |-> context]

\* jsonify(body) with a status; client is the list of calls the handler made
\* to call_hailuo_api and io the network requests and sleeps those performed.
Json(body, status, client, io) ==
  [kind |-> "json", status |-> status, body |-> body, client |-> client, io |-> io]

\* An exception that leaves the handler: Flask answers with its status.
Raise(exc, status) == [kind |-> "raise", status |-> status, exc |-> exc]

\* ------------------------------------------------------------------ routes
\* Mutant: the password is not compared.
CredentialsMatch_NoPassword(username, password) == username \in DOMAIN USERS

\* Mutant: the password is looked up among all passwords, not the user's.
CredentialsMatch_AnyPassword(username, password) ==
  \E u \in DOMAIN USERS : USERS[u] = password

\* USERS lookup of login: username in USERS and USERS[username] == password.
CredentialsMatch(username, password) ==
  username \in DOMAIN USERS /\ USERS[username] = password

\* Mutant: no early redirect for a session that is already authenticated.
login_NoGuard(method, form) ==
  /\ request' = [op |-> "login", method |-> method, form |-> form]
  /\ LET username == Get(form, "username", None)
         password == Get(form, "password", None)
     IN IF method = "POST" /\ username \in DOMAIN USERS /\ USERS[username] = password
          THEN /\ session' = SetItem(session, "username", username)
               /\ response' = Redirect("dashboard")
          ELSE /\ response' =
                    Render("login.html",
                           [error |-> IF method = "POST"
                                        THEN "Invalid username or password"
                                        ELSE None])
               /\ UNCHANGED session
  /\ UNCHANGED HAILUO_API_KEY

login(method, form) ==
  /\ request' = [op |-> "login", method |-> method, form |-> form]
  /\ IF Truthy(Get(session, "username", None))
       THEN /\ response' = Redirect("dashboard")
            /\ UNCHANGED session
       ELSE LET username == Get(form, "username", None)
                password == Get(form, "password", None)
            IN IF method = "POST" /\ CredentialsMatch(username, password)
                 THEN /\ session' = SetItem(session, "username", username)
                      /\ response' = Redirect("dashboard")
                 ELSE /\ response' =
                           Render("login.html",
                                  [error |-> IF method = "POST"
                                               THEN "Invalid username or password"
                                               ELSE None])
                      /\ UNCHANGED session
  /\ UNCHANGED HAILUO_API_KEY

\* try: int(form.get(key, default)) except ValueError: fallback
IntOrDefault(form, key, default, fallback) ==
  LET parsed == ParseInt(Get(form, key, default))
  IN IF parsed.ok THEN parsed.value ELSE fallback

\* Mutant: the lower bound is forgotten.
ClampNumVideos_NoLower(num_videos) == Min(num_videos, 10)

ClampNumVideos(num_videos) == Max(1, Min(num_videos, 10))

ClampDuration(duration) == Max(2, Min(duration, 30))

dashboard(method, form) ==
  /\ request' = [op |-> "dashboard", method |-> method, form |-> form]
  /\ IF ~Truthy(Get(session, "username", None))
       THEN response' = Redirect("login")
       ELSE IF method = "POST"
         THEN LET product == Strip(Get(form, "product", <<>>))
                  num_videos == ClampNumVideos(IntOrDefault(form, "num_videos", <<"1">>, 1))
                  duration == ClampDuration(IntOrDefault(form, "duration", <<"6">>, 6))
              IN response' =
                   Render("results.html",
                          [product |-> product,
                           num_videos |-> num_videos,
                           duration |-> duration,
                           directions |-> generate_directions(product),
                           storyboards |-> generate_storyboards(product, num_videos, duration)])
         ELSE response' = Render("index.html", <<>>)
  /\ UNCHANGED <<HAILUO_API_KEY, session>>

\* Mutant: the username is left in the session.
logout_NoPop ==
  /\ request' = [op |-> "logout", method |-> "GET"]
  /\ response' = Redirect("login")
  /\ UNCHANGED <<HAILUO_API_KEY, session>>

logout ==
  /\ request' = [op |-> "logout", method |-> "GET"]
  /\ session' = Pop(session, "username")
  /\ response' = Redirect("login")
  /\ UNCHANGED HAILUO_API_KEY

\* Mutant: the body is decoded before the session is checked.
api_generate_video_ParseFirst(body) ==
  /\ request' = [op |-> "api_generate_video", method |-> "POST", body |-> body]
  /\ IF body.t = "malformed"
       THEN response' = Raise("BadRequest", 400)
     ELSE IF ~Truthy(Get(session, "username", None))
       THEN response' = Json([error |-> "unauthenticated"], 401, <<>>, <<>>)
     ELSE response' = Raise("AttributeError", 500)
  /\ UNCHANGED <<HAILUO_API_KEY, session>>

\* A decoded JSON value is [t |-> "int", n |-> ..], [t |-> "str", s |-> ..]
\* or [t |-> "null"].  int(x): an int is itself, a str is parsed
\* (ValueError when it is no number), null raises TypeError.
JsonInt(x) ==
  IF x.t = "int" THEN [ok |-> TRUE, value |-> x.n, exc |-> None]
  ELSE IF x.t = "str"
    THEN LET parsed == ParseInt(x.s)
         IN [ok |-> parsed.ok, value |-> parsed.value, exc |-> "ValueError"]
  ELSE [ok |-> FALSE, value |-> 0, exc |-> "TypeError"]

api_generate_video(body) ==
  /\ request' = [op |-> "api_generate_video", method |-> "POST", body |-> body]
  /\ IF ~Truthy(Get(session, "username", None))
       THEN response' = Json([error |-> "unauthenticated"], 401, <<>>, <<>>)
     ELSE IF body.t = "malformed"
       THEN response' = Raise("BadRequest", 400)
     ELSE IF body.t # "object"
       THEN response' = Raise("AttributeError", 500)
     ELSE LET data == body.v
              prompt == Get(data, "prompt", [t |-> "null"])
              duration == JsonInt(Get(data, "duration", [t |-> "int", n |-> 6]))
          IN IF ~duration.ok
               THEN response' = Raise(duration.exc, 500)
               ELSE LET result == call_hailuo_api(prompt, duration.value, None, None, "768P")
                    IN response' =
                         Json(result.value, 200,
                              <<[prompt |-> prompt, duration |-> duration.value]>>,
                              result.io)
  /\ UNCHANGED <<HAILUO_API_KEY, session>>

\* ------------------------------------------------- direct calls of helpers
Call_generate_storyboards(product, num_videos, duration) ==
  /\ request' = [op |-> "generate_storyboards", product |-> product,
                 num_videos |-> num_videos, duration |-> duration]
  /\ response' = [kind |-> "return",
                  value |-> generate_storyboards(product, num_videos, duration)]
  /\ UNCHANGED <<HAILUO_API_KEY, session>>

Call_call_hailuo_api(prompt, duration) ==
  /\ request' = [op |-> "call_hailuo_api", prompt |-> prompt, duration |-> duration]
  /\ LET result == call_hailuo_api(prompt, duration, None, None, "768P")
     IN response' = [kind |-> "return", value |-> result.value, io |-> result.io]
  /\ UNCHANGED <<HAILUO_API_KEY, session>>

\* ------------------------------------------------------------------ inputs
\* A mapping holding the given values under those of the keys that are in D.
Fields(D, keys, values) ==
  [k \in {keys[i] : i \in 1..Len(keys)} \cap D |->
     values[CHOOSE i \in 1..Len(keys) : keys[i] = k]]

Usernames == {"demo", "admin", "bob", ""}

Passwords == {"password123", "admin", "wrong"}

LoginForms ==
  {Fields(D, <<"username", "password">>, v) :
     D \in SUBSET {"username", "password"}, v \in Usernames \X Passwords}

NumVideosStrings ==
  { <<"9", "9">>, <<"0">>, <<"a", "b", "c">>, <<" ", "+", "7", " ">>, <<>> }

DurationStrings ==
  { <<"1">>, <<"1", "0", "0">>, <<"a", "b", "c">>, <<"-", "3">>, <<"1", "2">> }

ProductStrings == { <<>>, <<" ", "T", "e", "a", " ">> }

DashboardForms ==
  {Fields(D, <<"product", "num_videos", "duration">>, v) :
     D \in SUBSET {"product", "num_videos", "duration"},
     v \in ProductStrings \X NumVideosStrings \X DurationStrings}

JsonPrompts == {[t |-> "str", s |-> <<"a", " ", "c", "a", "t">>], [t |-> "null"]}

JsonDurations ==
  {[t |-> "int", n |-> n] : n \in {0 - 1, 0, 6, 10, 31}}
    \cup {[t |-> "str", s |-> s] : s \in {<<"1", "0">>, <<"a", "b", "c">>}}
    \cup {[t |-> "null"]}

JsonBodies ==
  {[t |-> "malformed"], [t |-> "array"]}
    \cup {[t |-> "object", v |-> Fields(D, <<"prompt", "duration">>, v)] :
            D \in SUBSET {"prompt", "duration"}, v \in JsonPrompts \X JsonDurations}

CallDurations == (0 - 2) .. MaxDur

CallNumVideos == (0 .. MaxNum) \cup {10}

CallProducts == { <<>>, <<"T", "e", "a">> }

\* ----------------------------------------------------------- specification
\* HAILUO_API_KEY = os.environ.get("HAILUO_API_KEY"): unset, empty or a key.
Init ==
  /\ HAILUO_API_KEY \in {None, "", "sk-key"}
  /\ session = <<>>
  /\ request = [op |-> "start"]
  /\ response = [kind |-> "none"]

Next ==
  \/ \E method \in {"GET", "POST"} :
       \E form \in (IF method = "POST" THEN LoginForms ELSE {<<>>}) : login(method, form)
  \/ \E method \in {"GET", "POST"} :
       \E form \in (IF method = "POST" THEN DashboardForms ELSE {<<>>}) :
         dashboard(method, form)
  \/ logout
  \/ \E body \in JsonBodies : api_generate_video(body)
  \/ \E product \in CallProducts, num_videos \in CallNumVideos, duration \in CallDurations :
       Call_generate_storyboards(product, num_videos, duration)
  \/ \E prompt \in {None, "a cat"}, duration \in CallDurations :
       Call_call_hailuo_api(prompt, duration)

Spec == Init /\ [][Next]_vars

\* ================================================================== claims
\* The session carries a username.
Authenticated(s) == "username" \in DOMAIN s /\ s["username"] \notin {None, ""}

\* The two provisioned credential pairs, written out.
ValidPair(form) ==
  /\ DOMAIN form = {"username", "password"}
  /\ <<form["username"], form["password"]>> \in
       {<<"demo", "password123">>, <<"admin", "admin">>}

IsRedirect(r, endpoint) == r.kind = "redirect" /\ r.to = endpoint

LoginFailed(r) ==
  /\ r.kind = "render" /\ r.template = "login.html"
  /\ r.context.error = "Invalid username or password"

\* C1 as stated: every POST to the login route with one of the two valid
\* pairs sets the session username to the submitted username and redirects
\* to the dashboard; every POST with another pair shows "Invalid username or
\* password", does not redirect and leaves no session.
C1_Original ==
  [][(request'.op = "login" /\ request'.method = "POST") =>
       IF ValidPair(request'.form)
         THEN /\ session' = [username |-> request'.form["username"]]
              /\ IsRedirect(response', "dashboard")
         ELSE /\ LoginFailed(response')
              /\ "username" \notin DOMAIN session']_vars

\* C1 amended: the same, for a POST issued while the session carries no
\* username.
C1_Amended ==
  [][(request'.op = "login" /\ request'.method = "POST" /\ ~Authenticated(session)) =>
       IF ValidPair(request'.form)
         THEN /\ session' = [username |-> request'.form["username"]]
              /\ IsRedirect(response', "dashboard")
         ELSE /\ LoginFailed(response')
              /\ "username" \notin DOMAIN session']_vars

C1_Witness ==
  /\ request.op = "login" /\ request.method = "POST"
  /\ request.form = [username |-> "demo", password |-> "password123"]
  /\ session = [username |-> "demo"]
  /\ IsRedirect(response, "dashboard")

\* C2: while the session carries no username, /dashboard (GET or POST)
\* answers with a redirect to login and renders nothing, and
\* /api/generate_video answers 401 {"error": "unauthenticated"} without
\* calling the video task client, whatever the body (the check comes first).
C2_Unauthenticated ==
  ~Authenticated(session) =>
    /\ request.op = "dashboard" =>
         /\ IsRedirect(response, "login")
         /\ "context" \notin DOMAIN response
    /\ request.op = "api_generate_video" =>
         /\ response.kind = "json" /\ response.status = 401
         /\ response.body = [error |-> "unauthenticated"]
         /\ response.client = <<>> /\ response.io = <<>>

C2_Witness ==
  /\ ~Authenticated(session)
  /\ request.op = "api_generate_video" /\ request.body.t = "malformed"
  /\ response.status = 401

\* C3: a /logout request leaves the session without username and redirects
\* to login; from then on the session stays without username until a login
\* request redirects to the dashboard, and meanwhile /dashboard redirects to
\* login and /api/generate_video answers 401.
C3_Logout ==
  [][/\ request'.op = "logout" =>
          /\ "username" \notin DOMAIN session'
          /\ IsRedirect(response', "login")
     /\ (~Authenticated(session) /\ Authenticated(session')) =>
          /\ request'.op = "login" /\ request'.method = "POST"
          /\ IsRedirect(response', "dashboard")
     /\ (~Authenticated(session) /\ request'.op = "dashboard") =>
          IsRedirect(response', "login")
     /\ (~Authenticated(session) /\ request'.op = "api_generate_video") =>
          response'.status = 401]_vars

C3_Witness ==
  /\ request.op = "logout"
  /\ session = <<>>
  /\ IsRedirect(response, "login")

\* C4: the session is empty or carries exactly the key username, whose value
\* is "demo" or "admin".
C4_SessionValid ==
  \/ session = <<>>
  \/ /\ DOMAIN session = {"username"}
     /\ session["username"] \in {"demo", "admin"}

C4_Witness ==
  /\ session = [username |-> "admin"]
  /\ request.op = "api_generate_video"

\* What Python's int() gives for each string the forms submit (Absent: the
\* field is missing; NoInt: ValueError).
NoInt == "<ValueError>"

Absent == "<absent>"

PythonInt(form, key) ==
  IF key \notin DOMAIN form THEN [case |-> Absent]
  ELSE LET str == form[key]
       IN IF str = <<"9", "9">> THEN [case |-> "int", n |-> 99]
          ELSE IF str = <<"0">> THEN [case |-> "int", n |-> 0]
          ELSE IF str = <<" ", "+", "7", " ">> THEN [case |-> "int", n |-> 7]
          ELSE IF str = <<"1">> THEN [case |-> "int", n |-> 1]
          ELSE IF str = <<"1", "0", "0">> THEN [case |-> "int", n |-> 100]
          ELSE IF str = <<"-", "3">> THEN [case |-> "int", n |-> 0 - 3]
          ELSE IF str = <<"1", "2">> THEN [case |-> "int", n |-> 12]
          ELSE [case |-> NoInt]

Expected(parsed, default, lo, hi) ==
  IF parsed.case # "int" THEN default
  ELSE IF parsed.n < lo THEN lo
  ELSE IF parsed.n > hi THEN hi
  ELSE parsed.n

\* C5: an authenticated POST to /dashboard always renders the results page,
\* with num_videos the submitted integer (1 when absent or unparseable)
\* clamped to [1,10] and duration the submitted integer (6 when absent or
\* unparseable) clamped to [2,30].
C5_Clamping ==
  (request.op = "dashboard" /\ request.method = "POST" /\ Authenticated(session)) =>
    /\ response.kind = "render" /\ response.status = 200
    /\ response.template = "results.html"
    /\ response.context.num_videos =
         Expected(PythonInt(request.form, "num_videos"), 1, 1, 10)
    /\ response.context.duration =
         Expected(PythonInt(request.form, "duration"), 6, 2, 30)

C5_Witness ==
  /\ request.op = "dashboard" /\ request.method = "POST" /\ Authenticated(session)
  /\ "num_videos" \in DOMAIN request.form /\ request.form["num_videos"] = <<"9", "9">>
  /\ "duration" \in DOMAIN request.form /\ request.form["duration"] = <<"a", "b", "c">>
  /\ response.context.num_videos = 10
  /\ response.context.duration = 6

\* A state that holds storyboards: the result of a direct call, or the
\* results page of an authenticated dashboard POST.
HasStoryboards(req, resp) ==
  \/ req.op = "generate_storyboards"
  \/ req.op = "dashboard" /\ resp.kind = "render" /\ resp.template = "results.html"

StoryboardsOf(req, resp) ==
  IF req.op = "generate_storyboards" THEN resp.value ELSE resp.context.storyboards

ProductOf(req, resp) ==
  IF req.op = "generate_storyboards" THEN req.product ELSE resp.context.product

DurationOf(req, resp) ==
  IF req.op = "generate_storyboards" THEN req.duration ELSE resp.context.duration

IsPlaceholder(value) ==
  /\ DOMAIN value = {"task_id", "video_url", "message"}
  /\ value.task_id = None /\ value.video_url = None
  /\ value.message \notin {None, ""}

\* C7: with no API key configured (unset or empty), call_hailuo_api returns,
\* for every prompt and integer duration, task_id None, video_url None and a
\* non-empty message with no network request and no wait; an authenticated
\* POST to /api/generate_video whose body is an object with duration an
\* integer or absent answers 200 with that result, having called the client
\* once with the submitted duration, 6 when absent.
C7_NoKey ==
  HAILUO_API_KEY \in {None, ""} =>
    /\ request.op = "call_hailuo_api" =>
         /\ response.kind = "return"
         /\ IsPlaceholder(response.value)
         /\ response.io = <<>>
    /\ (/\ request.op = "api_generate_video" /\ Authenticated(session)
        /\ request.body.t = "object"
        /\ ("duration" \in DOMAIN request.body.v => request.body.v["duration"].t = "int"))
       => /\ response.kind = "json" /\ response.status = 200
          /\ IsPlaceholder(response.body)
          /\ response.body.message = "Hailuo API key not configured; skipping real API call."
          /\ response.io = <<>>
          /\ Len(response.client) = 1
          /\ response.client[1].duration =
               IF "duration" \in DOMAIN request.body.v
                 THEN request.body.v["duration"].n ELSE 6

C7_Witness ==
  /\ HAILUO_API_KEY = ""
  /\ request.op = "api_generate_video" /\ Authenticated(session)
  /\ request.body.t = "object" /\ "duration" \notin DOMAIN request.body.v
  /\ response.status = 200 /\ response.body.task_id = None
  /\ response.client[1].duration = 6

\* t occurs in s as a contiguous run of atoms (Python's `t in s`).
Contains(s, t) ==
  \E i \in 0..(Len(s) - Len(t)) : \A j \in 1..Len(t) : s[i + j] = t[j]

AdjectivePhrase(k) ==
  IF k = "safe" THEN "safe and trustworthy"
  ELSE IF k = "innovative" THEN "innovative and modern"
  ELSE "experimental and artistic"

Placeholders == {"{product}", "{adjective}", "{segment_length}"}

NoPlaceholder(text) == \A i \in 1..Len(text) : text[i] \notin Placeholders

\* C8: in every storyboard, each of the 3 scenes of each direction has a
\* description containing the product, the segment length max(1, d // 3) and
\* the direction's adjective phrase, and a prompt containing the product and
\* the adjective phrase; no text holds an un-substituted placeholder.
C8_SceneText ==
  HasStoryboards(request, response) =>
    LET sb == StoryboardsOf(request, response)
        p == ProductOf(request, response)
        d == DurationOf(request, response)
        seg == IF d \div 3 >= 1 THEN d \div 3 ELSE 1
    IN \A k \in {"safe", "innovative", "experimental"} : \A i \in 1..3 :
         /\ Contains(sb[k][i].description, p)
         /\ Contains(sb[k][i].description, Str(seg))
         /\ Contains(sb[k][i].description, <<AdjectivePhrase(k)>>)
         /\ Contains(sb[k][i].prompt, p)
         /\ Contains(sb[k][i].prompt, <<AdjectivePhrase(k)>>)
         /\ NoPlaceholder(sb[k][i].description)
         /\ NoPlaceholder(sb[k][i].prompt)

\* C9 as stated: with an API key configured, a call of call_hailuo_api has
\* submitted the job and either raised for want of a task id or polled at
\* most 60 times and returned a result that carries the task id.
C9_Original ==
  (Truthy(HAILUO_API_KEY) /\ request.op = "call_hailuo_api") =>
    /\ response.io # <<>> /\ response.io[1] = "submit"
    /\ Cardinality({i \in 1..Len(response.io) : response.io[i] = "poll"}) <= 60
    /\ \/ response.kind = "raise"
       \/ response.kind = "return" /\ response.value.task_id # None

\* C9 amended: with an API key configured, call_hailuo_api submits nothing
\* and polls nothing; it returns at once, without raising, task_id None,
\* video_url None and the message "Networking disabled; returning
\* placeholder response.", and an authenticated well-formed POST to
\* /api/generate_video answers 200 with that result.
C9_Amended ==
  Truthy(HAILUO_API_KEY) =>
    /\ request.op = "call_hailuo_api" =>
         /\ response.kind = "return"
         /\ response.io = <<>>
         /\ response.value =
              [task_id |-> None, video_url |-> None,
               message |-> "Networking disabled; returning placeholder response."]
    /\ (request.op = "api_generate_video" /\ response.status = 200) =>
         /\ response.io = <<>>
         /\ response.body =
              [task_id |-> None, video_url |-> None,
               message |-> "Networking disabled; returning placeholder response."]

C9_Witness ==
  /\ HAILUO_API_KEY = "sk-key"
  /\ request.op = "call_hailuo_api" /\ request.duration = 6
  /\ response.value.message = "Networking disabled; returning placeholder response."

\* C10: the session changes only by a login POST with a valid pair issued
\* without username in the session (which sets it to the submitted
\* username) and by /logout (which removes it); a login request issued with
\* a username in the session redirects to the dashboard, whatever it
\* submits, and leaves the session as it is.
C10_Frame ==
  [][/\ session' # session =>
          \/ /\ request'.op = "login" /\ request'.method = "POST"
             /\ ~Authenticated(session)
             /\ ValidPair(request'.form)
             /\ session' = [username |-> request'.form["username"]]
          \/ /\ request'.op = "logout"
             /\ Authenticated(session) /\ session' = <<>>
     /\ (request'.op = "login" /\ Authenticated(session)) =>
          /\ session' = session
          /\ IsRedirect(response', "dashboard")
     /\ (request'.op = "login" /\ request'.method = "POST" /\ ~ValidPair(request'.form)) =>
          session' = session
     /\ request'.op \in {"dashboard", "api_generate_video"} => session' = session]_vars

C10_Witness ==
  /\ request.op = "login" /\ request.method = "POST"
  /\ request.form = [username |-> "demo", password |-> "password123"]
  /\ session = [username |-> "admin"]
  /\ IsRedirect(response, "dashboard")

====
